---- MODULE Spec2Model ----
(***************************************************************************)
(* Model of notion-bridge (src/src/main.rs): the export loop of main, the  *)
(* per-page pipeline process_page, the renderer block_to_markdown and the  *)
(* title cache PageIdCache.                                                *)
(*                                                                         *)
(* Text is a sequence of letters.  A letter is a string: the line break    *)
(* "\n" and the carriage return "\r" are always letters of their own, the  *)
(* characters of a language name too; the fixed fragments of the format    *)
(* strings and the payload words are letters too.  The empty Rust string   *)
(* is the empty sequence, concatenation is \o.                             *)
(***************************************************************************)
EXTENDS Naturals, Sequences, FiniteSets

\* ---------------------------------------------------------------- bounds
MaxResults    == 2   \* results in one search batch
MaxSearchCalls == 2  \* search calls after which the server ends the sequence
MaxBatchLen   == 1   \* blocks in one block-children batch
MaxChildCalls == 2   \* get-children calls after which the server ends the sequence
MaxKids       == 2   \* children of one rendered container block
MaxDepth      == 1   \* nesting depth of the rendered block trees
MaxLookups    == 4   \* get_page_title calls on one cache

\* ------------------------------------------------------------------ text
NL == "\n"
CR == "\r"
\* the letter standing for the code fence, three backquotes
Fence == "<fence>"
\* Option<T>: None is the empty sequence, Some(x) the one-element sequence <<x>>
None == <<>>
Some(x) == <<x>>

\* (mutant) a write that loses its text
WriteDropsText(buf, text) == buf

\* write!(writer_buffer, ...) on the String sink: appends, never fails
Write(buf, text) == buf \o text

RECURSIVE render_rich_text(_)
render_rich_text(rich_text) ==
    IF rich_text = <<>> THEN <<>>
    ELSE Head(rich_text).plain_text \o render_rich_text(Tail(rich_text))

render_file_object(file_object) ==
    IF file_object.tag = "File" THEN file_object.file.url
    ELSE file_object.external.url

\* str::lines(): the text is cut after every "\n"; a piece that ends with
\* "\n" loses it, and then loses one "\r" that stood right before it; a "\r"
\* anywhere else stays; a final line break opens no further (empty) line
RECURSIVE RawLine(_)
RawLine(t) ==
    IF t = <<>> \/ Head(t) = NL THEN <<>>
    ELSE <<Head(t)>> \o RawLine(Tail(t))

HasLineBreak(t) == \E i \in DOMAIN t : t[i] = NL

StripCR(line) ==
    IF line # <<>> /\ line[Len(line)] = CR THEN SubSeq(line, 1, Len(line) - 1)
    ELSE line

FirstLine(t) == IF HasLineBreak(t) THEN StripCR(RawLine(t)) ELSE RawLine(t)

RECURSIVE AfterFirstLine(_)
AfterFirstLine(t) ==
    IF t = <<>> THEN <<>>
    ELSE IF Head(t) = NL THEN Tail(t)
    ELSE AfterFirstLine(Tail(t))

RECURSIVE Lines(_)
Lines(t) ==
    IF t = <<>> THEN <<>>
    ELSE <<FirstLine(t)>> \o Lines(AfterFirstLine(t))

\* .map(|line| format!("> {}\n", line)).collect::<String>()
RECURSIVE CalloutLines(_)
CalloutLines(ls) ==
    IF ls = <<>> THEN <<>>
    ELSE (<<"> ">> \o Head(ls) \o <<NL>>) \o CalloutLines(Tail(ls))

\* str::to_lowercase on format!("{:?}", code.language): the Debug name of the
\* language, ASCII letters; every upper-case letter becomes its lower-case one
UpperCase == <<"A", "B", "C", "D", "E", "F", "G", "H", "I", "J", "K", "L", "M",
               "N", "O", "P", "Q", "R", "S", "T", "U", "V", "W", "X", "Y", "Z">>
LowerCase == <<"a", "b", "c", "d", "e", "f", "g", "h", "i", "j", "k", "l", "m",
               "n", "o", "p", "q", "r", "s", "t", "u", "v", "w", "x", "y", "z">>

ToLowerChar(c) ==
    IF \E i \in DOMAIN UpperCase : UpperCase[i] = c
    THEN LowerCase[CHOOSE i \in DOMAIN UpperCase : UpperCase[i] = c]
    ELSE c

RECURSIVE to_lowercase(_)
to_lowercase(s) ==
    IF s = <<>> THEN <<>>
    ELSE <<ToLowerChar(Head(s))>> \o to_lowercase(Tail(s))

\* Option<Vec<Block>>::unwrap_or_default()
unwrap_or_default(children) == IF children = None THEN <<>> ELSE children[1]

\* PageId::from_str (notion crate): wraps the string, Ok for every string
PageIdFromStr(s) == [ok |-> TRUE, value |-> s]

\* -------------------------------------------------------------- renderer
\* block_to_markdown(block, writer_buffer): the result is
\*   [ok  |-> whether Ok(()) is returned,
\*    out |-> the text appended to writer_buffer by the call]
RECURSIVE block_to_markdown(_)
RECURSIVE RenderChildren(_)
RECURSIVE RenderColumns(_)

\* for child in children { block_to_markdown(child, writer_buffer)?; }
RenderChildren(children) ==
    IF children = <<>> THEN [ok |-> TRUE, out |-> <<>>]
    ELSE LET r == block_to_markdown(Head(children)) IN
         IF ~r.ok THEN r
         ELSE LET rest == RenderChildren(Tail(children)) IN
              [ok |-> rest.ok, out |-> r.out \o rest.out]

\* for child in children { write "COLUMN LIST\n\n"; render child?; write "COLUMN LIST END\n\n" }
RenderColumns(children) ==
    IF children = <<>> THEN [ok |-> TRUE, out |-> <<>>]
    ELSE LET open == Write(<<>>, <<"COLUMN LIST", NL, NL>>)
             r    == block_to_markdown(Head(children)) IN
         IF ~r.ok THEN [ok |-> FALSE, out |-> open \o r.out]
         ELSE LET one  == Write(open \o r.out, <<"COLUMN LIST END", NL, NL>>)
                  rest == RenderColumns(Tail(children)) IN
              [ok |-> rest.ok, out |-> one \o rest.out]

\* a head line, then the children between two sentinel lines
Wrapped(head, start, children, end) ==
    LET b1 == Write(Write(<<>>, head), start)
        r  == RenderChildren(unwrap_or_default(children)) IN
    IF ~r.ok THEN [ok |-> FALSE, out |-> b1 \o r.out]
    ELSE [ok |-> TRUE, out |-> Write(b1 \o r.out, end)]

Ok(text) == [ok |-> TRUE, out |-> Write(<<>>, text)]

block_to_markdown(block) ==
    CASE block.type = "Paragraph" ->
           LET b1 == Write(<<>>, render_rich_text(block.rich_text) \o <<NL>>)
               r  == RenderChildren(unwrap_or_default(block.children)) IN
           [ok |-> r.ok, out |-> b1 \o r.out]
      [] block.type = "Heading1" ->
           Ok(<<NL, "# ">> \o render_rich_text(block.rich_text) \o <<NL, NL>>)
      [] block.type = "Heading2" ->
           Ok(<<NL, "## ">> \o render_rich_text(block.rich_text) \o <<NL, NL>>)
      [] block.type = "Heading3" ->
           Ok(<<NL, "### ">> \o render_rich_text(block.rich_text) \o <<NL, NL>>)
      [] block.type = "Callout" ->
           Ok(<<"> [!info]", NL>>
              \o CalloutLines(Lines(render_rich_text(block.rich_text)))
              \o <<NL>>)
      [] block.type = "Quote" ->
           Wrapped(<<"> ">> \o render_rich_text(block.rich_text) \o <<NL>>,
                   <<"START QUOTE CHILDREN:", NL>>, block.children,
                   <<"END QUOTE CHILDREN:", NL>>)
      [] block.type = "BulletedListItem" ->
           Wrapped(<<"* ">> \o render_rich_text(block.rich_text) \o <<NL>>,
                   <<"START BULLET CHILDREN:", NL>>, block.children,
                   <<"END BULLET CHILDREN:", NL>>)
      [] block.type = "NumberedListItem" ->
           Wrapped(<<"1. ">> \o render_rich_text(block.rich_text) \o <<NL>>,
                   <<"START NUMBERED CHILDREN:", NL>>, block.children,
                   <<"END NUMBERED CHILDREN:", NL>>)
      [] block.type = "Toggle" ->
           Wrapped(<<"<details> <summary>">> \o render_rich_text(block.rich_text)
                       \o <<"</summary> ", NL>>,
                   <<>>, block.children, <<"</details>", NL, NL>>)
      [] block.type = "ToDo" ->
           LET checked == IF block.checked THEN <<"x">> ELSE <<>> IN
           Wrapped(<<"- [">> \o checked \o <<"] ">>
                       \o render_rich_text(block.rich_text) \o <<NL>>,
                   <<"START TODO CHILDREN:", NL>>, block.children,
                   <<"END TODO CHILDREN:", NL>>)
      [] block.type = "Code" ->
           LET content  == render_rich_text(block.rich_text)
               language == to_lowercase(block.language) IN
           Ok(<<NL, Fence>> \o language \o <<NL>> \o content \o <<NL, Fence, NL, NL>>)
      [] block.type = "ChildPage" ->
           LET page_id == PageIdFromStr(block.id) IN
           IF ~page_id.ok THEN [ok |-> FALSE, out |-> <<>>]
           ELSE Ok(<<"Child page: [[">> \o block.title \o <<"]]", NL>>)
      [] block.type = "ChildDatabase" ->
           Ok(<<"Child database: ">> \o block.title \o <<NL>>)
      [] block.type \in {"Image", "Video", "File", "Pdf"} ->
           Ok(<<"![[">> \o render_file_object(block.file_object) \o <<"]]", NL>>)
      [] block.type = "Divider" ->
           Ok(<<"----", NL>>)
      [] block.type = "Embed" ->
           Ok(<<"![[">> \o block.url \o <<"]]", NL>>)
      [] block.type = "Bookmark" ->
           Ok(<<"caption ">> \o render_rich_text(block.caption) \o <<" ", NL, "![[">>
              \o block.url \o <<"]]", NL>>)
      [] block.type = "Equation" ->
           Ok(<<"Equation ">> \o block.expression \o <<NL>>)
      [] block.type = "TableOfContents" -> Ok(<<NL, "TABLE OF CONTENTS", NL>>)
      [] block.type = "Breadcrumb" -> Ok(<<NL, "BREADCRUMB", NL>>)
      [] block.type \in {"ColumnList", "Column"} -> RenderColumns(block.children)
      [] block.type = "LinkPreview" ->
           Ok(<<"![[">> \o block.url \o <<"]]", NL>>)
      [] block.type = "Template" ->
           Ok(<<NL, "TEMPLATE ">> \o render_rich_text(block.rich_text) \o <<NL>>)
      [] block.type = "LinkToPage" -> Ok(<<NL, "LINK TO PAGE", NL>>)
      [] block.type = "Table" -> Ok(<<NL, "TABLE", NL>>)
      [] block.type = "SyncedBlock" -> Ok(<<NL, "SYNCED BLOCK", NL>>)
      [] block.type = "TableRow" -> Ok(<<NL, "TABLE ROW", NL>>)
      [] block.type = "Unsupported" -> Ok(<<NL, "UNSUPPORTED", NL>>)
      [] block.type = "Unknown" -> Ok(<<NL, "UNKNOWN", NL>>)

\* ---------------------------------------------------------------- inputs
SeqsUpTo(S, n) == UNION {[1..k -> S] : k \in 0..n}

Word(w) == <<[plain_text |-> <<w>>]>>

\* blocks the server puts into the block-children batches of a page
Hi      == [type |-> "Paragraph", rich_text |-> Word("hi"), children |-> None]
Divider == [type |-> "Divider"]
Todo    == [type |-> "ToDo", rich_text |-> Word("done"), checked |-> TRUE,
            children |-> None]
RunBlocks   == {Divider}
FetchBlocks == {Hi, Divider, Todo}

PageIds == {"p1", "p2"}
Titles  == {<<"A", "/", "B">>, <<"C">>}
\* the title the server holds for a page
TitleOf(id) == IF id = "p1" THEN <<"A", "/", "B">> ELSE <<"C">>

\* notion::models::Object as returned by search
OtherKinds == {"Block", "Database", "List", "User", "Error"}
Objects ==
    {[kind |-> k] : k \in OtherKinds \ {"Database"}}
    \cup {[kind |-> "Database", id |-> "d1"]}
    \cup {[kind |-> "Page", id |-> i, has_title |-> TRUE] : i \in PageIds}
    \cup {[kind |-> "Page", id |-> "p1", has_title |-> FALSE]}

LiveObjects ==
    {o \in Objects : o.kind \in {"Database", "Page"} /\ o.id \in {"d1", "p1"}}

\* a Cursor Page: a batch and its optional continuation token
EmptyList == [results |-> <<>>, next_cursor |-> None]
NoObject == [kind |-> "None"]

\* str::replace('/', "-")
RECURSIVE replace_slash(_)
replace_slash(t) ==
    IF t = <<>> THEN <<>>
    ELSE <<IF Head(t) = "/" THEN "-" ELSE Head(t)>> \o replace_slash(Tail(t))

\* format!("output/{page_title}.md")
OutputPath(page_title) == <<"output/">> \o page_title \o <<".md">>

\* ----------------------------------------------------------------- state
VARIABLES
    pc,             \* position of main / process_page: the statement to run next,
                    \* or how the process has ended
    search_result,  \* main: the current search batch; results = those not yet taken by the for loop
    searches,       \* search calls issued so far
    cur,            \* the search result being handled, None between results
    page,           \* locals of process_page: page_title, children, page_buffer
    fetch,          \* history of the current process_page: blocks received and rendered,
                    \* cursors sent, continuation tokens returned
    caught,         \* history: main has caught an error of process_page and printed
                    \* its "Failed for" line (lines 74-76)
    files,          \* paths existing under output/ that this run created
    step,           \* what the last step did: operation, remote call outcome, arguments
    rblock, rres,   \* renderer harness: the block given to block_to_markdown, its result
    cache, lookups, cstep, \* PageIdCache.page_to_title, calls made on it, the last call
    server          \* the remote server: whether it ends its cursor sequences

vars == <<pc, search_result, searches, cur, page, fetch, caught, files, step,
          rblock, rres, cache, lookups, cstep, server>>

runVars    == <<pc, search_result, searches, cur, page, fetch, caught, files, step,
                server>>
renderVars == <<rblock, rres>>
cacheVars  == <<cache, lookups, cstep>>

NoPage  == [page_title |-> <<>>, children |-> EmptyList, page_buffer |-> <<>>]
NoFetch == [received |-> <<>>, consumed |-> <<>>, sent |-> <<>>, returned |-> <<>>]
\* ok: the operation succeeded; lost: its failure was not seen by the program;
\* print_ok: the line the step prints (println!, eprintln!) could be written
NoStep  == [op |-> "none", ok |-> TRUE, lost |-> FALSE, title_ok |-> TRUE,
            print_ok |-> TRUE, arg |-> "", cursor |-> None, kind |-> "", path |-> <<>>]
\* println! and eprintln! panic when the line cannot be written
PrintPanics(s) == [s EXCEPT !.ok = FALSE, !.print_ok = FALSE]
\* a step of process_page: made for the result cur
PageStep(op) == [NoStep EXCEPT !.op = op, !.kind = cur.kind, !.arg = cur.id]

\* main returned Ok(()), main returned Err, a panic, clap ended the process
Terminal == pc \in {"done", "failed", "panicked", "exited"}

\* ------------------------------------------------------------- main setup
\* line 33: Cli::parse() reads the command line; on a usage error and on --help
\* clap prints and ends the process itself
ParseCli ==
    /\ UNCHANGED <<renderVars, cacheVars, server>>
    /\ pc = "start"
    /\ \/ \E why \in {"usage", "help"} :
             /\ pc' = "exited"
             /\ step' = [NoStep EXCEPT !.op = "parse", !.ok = (why = "help"), !.arg = why]
       \/ \E save_token \in BOOLEAN :
             /\ pc' = IF save_token THEN "save_token" ELSE "load_config"
             /\ step' = [NoStep EXCEPT !.op = "parse",
                                       !.arg = IF save_token THEN "save_token" ELSE ""]
    /\ UNCHANGED <<search_result, searches, cur, page, fetch, caught, files>>

\* lines 37-44: cli.save_token: Password::interact()?, save_user_config()?,
\* return Ok(())
SaveToken ==
    /\ UNCHANGED <<renderVars, cacheVars, server>>
    /\ pc = "save_token"
    /\ \/ /\ step' = [NoStep EXCEPT !.op = "prompt", !.ok = FALSE]
          /\ pc' = "failed"
       \/ /\ step' = [NoStep EXCEPT !.op = "save_config", !.ok = FALSE]
          /\ pc' = "failed"
       \/ /\ step' = [NoStep EXCEPT !.op = "save_config"]
          /\ pc' = "done"
    /\ UNCHANGED <<search_result, searches, cur, page, fetch, caught, files>>

\* lines 46-47: AppConfig::load_user_config()?, NotionApi::new(..)?
LoadConfig ==
    /\ UNCHANGED <<renderVars, cacheVars, server>>
    /\ pc = "load_config"
    /\ \/ /\ step' = [NoStep EXCEPT !.op = "load_config", !.ok = FALSE]
          /\ pc' = "failed"
       \/ /\ step' = [NoStep EXCEPT !.op = "client", !.ok = FALSE]
          /\ pc' = "failed"
       \/ /\ step' = [NoStep EXCEPT !.op = "client"]
          /\ pc' = "search"
    /\ UNCHANGED <<search_result, searches, cur, page, fetch, caught, files>>

\* ----------------------------------------------------------- the server
\* An ending server ends every cursor sequence: a batch may carry a token or
\* none, and at the latest the batch of call number max carries none.  An
\* endless server puts a continuation token into every batch.  The token is
\* opaque to the program; it is the number of the call, kept up to max.
Servers == {"ending", "endless"}

Tokens(n, max) ==
    IF server = "endless" THEN {Some(IF n < max THEN n ELSE max)}
    ELSE IF n < max THEN {None, Some(n)} ELSE {None}

\* the history of calls is kept for the first max calls
Count(k, max) == IF k < max THEN k + 1 ELSE k

\* ------------------------------------------------------------- main loop
\* the server's answer to a search call: a batch of at most MaxResults objects
SearchAnswers(n, Objs) ==
    {[results |-> r, next_cursor |-> c] :
        r \in SeqsUpTo(Objs, MaxResults),
        c \in Tokens(n, MaxSearchCalls)}

\* (mutant) a failed search is taken for the end of the results
DoSearchIgnoresError(cursor, Objs) ==
    /\ searches' = Count(searches, MaxSearchCalls)
    /\ \/ /\ pc' = "done"
          /\ step' = [NoStep EXCEPT !.op = "search", !.ok = FALSE, !.cursor = cursor]
          /\ UNCHANGED search_result
       \/ \E a \in SearchAnswers(searches + 1, Objs) :
             /\ search_result' = a
             /\ pc' = "for"
             /\ step' = [NoStep EXCEPT !.op = "search", !.cursor = cursor]
    /\ UNCHANGED <<cur, page, fetch, caught, files>>

\* notion_api.search(...).await? : line 56 (no cursor) and line 91 (with cursor)
DoSearch(cursor, Objs) ==
    /\ searches' = Count(searches, MaxSearchCalls)
    /\ \/ /\ pc' = "failed"
          /\ step' = [NoStep EXCEPT !.op = "search", !.ok = FALSE, !.cursor = cursor]
          /\ UNCHANGED search_result
       \/ \E a \in SearchAnswers(searches + 1, Objs) :
             /\ search_result' = a
             /\ pc' = "for"
             /\ step' = [NoStep EXCEPT !.op = "search", !.cursor = cursor]
    /\ UNCHANGED <<cur, page, fetch, caught, files>>

\* lines 54-56: the first search call
Search(Objs) ==
    /\ UNCHANGED <<renderVars, cacheVars, server>>
    /\ pc = "search"
    /\ DoSearch(None, Objs)

\* (mutant) a Database result is exported like a Page
HandleOtherExportsDatabase ==
    /\ UNCHANGED <<renderVars, cacheVars, server>>
    /\ pc = "for"
    /\ search_result.results # <<>>
    /\ Head(search_result.results).kind # "Page"
    /\ search_result' = [search_result EXCEPT !.results = Tail(@)]
    /\ LET printed == [NoStep EXCEPT !.op = "print",
                                      !.kind = Head(search_result.results).kind] IN
       \/ /\ Head(search_result.results).kind = "Database"
          /\ cur' = Head(search_result.results)
          /\ pc' = "get_page"
          /\ step' = [NoStep EXCEPT !.op = "title", !.kind = "Database",
                                    !.arg = Head(search_result.results).id]
       \/ /\ Head(search_result.results).kind # "Database"
          /\ step' = printed
          /\ UNCHANGED <<pc, cur>>
       \/ /\ step' = PrintPanics(printed)
          /\ pc' = "panicked"
          /\ UNCHANGED cur
    /\ UNCHANGED <<searches, page, fetch, caught, files>>

\* lines 61-70, 78-86: a result that is not a Page is printed with println!
HandleOther ==
    /\ UNCHANGED <<renderVars, cacheVars, server>>
    /\ pc = "for"
    /\ search_result.results # <<>>
    /\ Head(search_result.results).kind # "Page"
    /\ search_result' = [search_result EXCEPT !.results = Tail(@)]
    /\ LET printed == [NoStep EXCEPT !.op = "print",
                                      !.kind = Head(search_result.results).kind] IN
       \/ /\ step' = printed
          /\ UNCHANGED pc
       \/ /\ step' = PrintPanics(printed)
          /\ pc' = "panicked"
    /\ UNCHANGED <<searches, cur, page, fetch, caught, files>>

\* lines 71-74: page.title().unwrap(), println!("Page: .."), then process_page
\* is called
HandlePage ==
    /\ UNCHANGED <<renderVars, cacheVars, server>>
    /\ pc = "for"
    /\ search_result.results # <<>>
    /\ Head(search_result.results).kind = "Page"
    /\ search_result' = [search_result EXCEPT !.results = Tail(@)]
    /\ cur' = Head(search_result.results)
    /\ LET titled == [NoStep EXCEPT !.op = "title", !.kind = "Page",
                                     !.arg = Head(search_result.results).id] IN
       IF ~Head(search_result.results).has_title
       THEN /\ step' = [titled EXCEPT !.title_ok = FALSE]
            /\ pc' = "panicked"
       ELSE \/ /\ step' = titled
               /\ pc' = "get_page"
            \/ /\ step' = PrintPanics(titled)
               /\ pc' = "panicked"
    /\ UNCHANGED <<searches, page, fetch, caught, files>>

\* (mutant) the loop ends after the first batch, whatever its continuation token
LoopEndAlwaysBreaks(Objs) ==
    /\ UNCHANGED <<renderVars, cacheVars, server>>
    /\ pc = "for"
    /\ search_result.results = <<>>
    /\ pc' = "done"
    /\ step' = [NoStep EXCEPT !.op = "end"]
    /\ UNCHANGED <<search_result, searches, cur, page, fetch, caught, files>>

\* lines 89-94: after the for loop
LoopEnd(Objs) ==
    /\ UNCHANGED <<renderVars, cacheVars, server>>
    /\ pc = "for"
    /\ search_result.results = <<>>
    /\ IF search_result.next_cursor # None
       THEN DoSearch(search_result.next_cursor, Objs)
       ELSE /\ pc' = "done"
            /\ step' = [NoStep EXCEPT !.op = "end"]
            /\ UNCHANGED <<search_result, searches, cur, page, fetch, caught, files>>

\* ---------------------------------------------------------- process_page
\* (mutant) the error of process_page is propagated by main instead of caught
ReturnErrAborts(s) ==
    /\ step' = s
    /\ pc' = "failed"
    /\ cur' = NoObject
    /\ page' = NoPage
    /\ fetch' = NoFetch
    /\ UNCHANGED caught

\* process_page returned Err at the step s: the error is caught at line 74 and
\* printed with eprintln! (line 75), then the for loop goes on
ReturnErr(s) ==
    /\ cur' = NoObject
    /\ page' = NoPage
    /\ fetch' = NoFetch
    /\ \/ /\ step' = s
          /\ pc' = "for"
          /\ caught' = TRUE
       \/ /\ step' = [s EXCEPT !.print_ok = FALSE]
          /\ pc' = "panicked"
          /\ UNCHANGED caught

\* (mutant) a failed get_page is issued again
GetPageRetries ==
    /\ UNCHANGED <<renderVars, cacheVars, server>>
    /\ pc = "get_page"
    /\ \/ /\ step' = [PageStep("get_page") EXCEPT !.ok = FALSE]
          /\ UNCHANGED <<pc, cur, page, fetch, caught>>
       \/ /\ step' = PageStep("get_page")
          /\ page' = [page EXCEPT !.page_title = TitleOf(cur.id)]
          /\ pc' = "get_children"
          /\ UNCHANGED <<cur, fetch, caught>>
    /\ UNCHANGED <<search_result, searches, files>>

\* lines 101-102: get_page(page_id).await?, then title().expect(..)
GetPage ==
    /\ UNCHANGED <<renderVars, cacheVars, server>>
    /\ pc = "get_page"
    /\ \/ /\ ReturnErr([PageStep("get_page") EXCEPT !.ok = FALSE])
       \/ /\ step' = [PageStep("get_page") EXCEPT !.title_ok = FALSE]
          /\ pc' = "panicked"
          /\ UNCHANGED <<cur, page, fetch, caught>>
       \/ /\ step' = PageStep("get_page")
          /\ page' = [page EXCEPT !.page_title = TitleOf(cur.id)]
          /\ pc' = "get_children"
          /\ UNCHANGED <<cur, fetch, caught>>
    /\ UNCHANGED <<search_result, searches, files>>

\* the server's answer to a get-children call: a batch of at most MaxBatchLen
\* blocks; the batches an endless server sends after call number MaxChildCalls
\* are empty
ChildAnswers(n, Blocks) ==
    {[results |-> r, next_cursor |-> c] :
        r \in IF n > MaxChildCalls THEN {<<>>} ELSE SeqsUpTo(Blocks, MaxBatchLen),
        c \in Tokens(n, MaxChildCalls)}

\* the history of the fetch once the call with cursor has been answered with
\* the batch a; it is kept for the first MaxChildCalls calls
Received(cursor, a) ==
    IF Len(fetch.sent) < MaxChildCalls
    THEN [fetch EXCEPT !.received = @ \o a.results,
                       !.sent = Append(@, cursor),
                       !.returned = Append(@, a.next_cursor)]
    ELSE fetch

\* (mutant) a failed get-children call is taken for the end of the sequence
DoGetChildrenErrorEndsFetch(cursor, Blocks) ==
    \/ /\ step' = [PageStep("get_children") EXCEPT !.ok = FALSE, !.cursor = cursor]
       /\ pc' = "create"
       /\ UNCHANGED <<cur, page, fetch, caught>>
    \/ \E a \in ChildAnswers(Len(fetch.sent) + 1, Blocks) :
          /\ step' = [PageStep("get_children") EXCEPT !.cursor = cursor]
          /\ page' = [page EXCEPT !.children = a]
          /\ fetch' = Received(cursor, a)
          /\ pc' = "render"
          /\ UNCHANGED <<cur, caught>>

\* get_block_children(block_id) (line 105) and
\* get_block_children_with_cursor(block_id, cursor) (lines 116-118), both with ?
DoGetChildren(cursor, Blocks) ==
    \/ /\ ReturnErr([PageStep("get_children") EXCEPT !.ok = FALSE, !.cursor = cursor])
    \/ \E a \in ChildAnswers(Len(fetch.sent) + 1, Blocks) :
          /\ step' = [PageStep("get_children") EXCEPT !.cursor = cursor]
          /\ page' = [page EXCEPT !.children = a]
          /\ fetch' = Received(cursor, a)
          /\ pc' = "render"
          /\ UNCHANGED <<cur, caught>>

\* lines 104-109
GetChildren(Blocks) ==
    /\ UNCHANGED <<renderVars, cacheVars, server>>
    /\ pc = "get_children"
    /\ DoGetChildren(None, Blocks)
    /\ UNCHANGED <<search_result, searches, files>>

\* lines 112-114: for child in children.results { block_to_markdown(child, &mut page_buffer)?; }
RenderBatch ==
    /\ UNCHANGED <<renderVars, cacheVars, server>>
    /\ pc = "render"
    /\ LET r == RenderChildren(page.children.results) IN
       IF r.ok
       THEN /\ page' = [page EXCEPT !.page_buffer = @ \o r.out,
                                    !.children.results = <<>>]
            /\ fetch' = [fetch EXCEPT !.consumed = @ \o page.children.results]
            /\ step' = PageStep("render")
            /\ pc' = "cursor"
            /\ UNCHANGED <<cur, caught>>
       ELSE /\ ReturnErr([PageStep("render") EXCEPT !.ok = FALSE])
    /\ UNCHANGED <<search_result, searches, files>>

\* (mutant) the fetch stops after the first batch, whatever its continuation token
NextChildrenStopsEarly(Blocks) ==
    /\ UNCHANGED <<renderVars, cacheVars, server>>
    /\ pc = "cursor"
    /\ pc' = "create"
    /\ step' = PageStep("fetched")
    /\ UNCHANGED <<cur, page, fetch, caught>>
    /\ UNCHANGED <<search_result, searches, files>>

\* lines 115-121
NextChildren(Blocks) ==
    /\ UNCHANGED <<renderVars, cacheVars, server>>
    /\ pc = "cursor"
    /\ IF page.children.next_cursor # None
       THEN DoGetChildren(page.children.next_cursor, Blocks)
       ELSE /\ pc' = "create"
            /\ step' = PageStep("fetched")
            /\ UNCHANGED <<cur, page, fetch, caught>>
    /\ UNCHANGED <<search_result, searches, files>>

\* the path of line 125: format!("output/{page_title}.md") on the title of line 124
PagePath == OutputPath(replace_slash(page.page_title))

\* lines 124-125: page_title.replace('/', "-"), tokio::fs::File::create(path).await?
CreateFile ==
    /\ UNCHANGED <<renderVars, cacheVars, server>>
    /\ pc = "create"
    /\ \/ /\ ReturnErr([PageStep("create") EXCEPT !.ok = FALSE, !.path = PagePath])
          /\ UNCHANGED files
       \/ /\ step' = [PageStep("create") EXCEPT !.path = PagePath]
          /\ files' = files \cup {PagePath}
          /\ pc' = "write"
          /\ UNCHANGED <<cur, page, fetch, caught>>
    /\ UNCHANGED <<search_result, searches>>

\* process_page returns Ok(()) (line 128): main goes on with the for loop
ReturnOk ==
    /\ pc' = "for"
    /\ cur' = NoObject
    /\ page' = NoPage
    /\ fetch' = NoFetch
    /\ UNCHANGED caught

\* (mutant) a write error that write_all returns ends the run
WriteFileErrorIsFatal ==
    /\ UNCHANGED <<renderVars, cacheVars, server>>
    /\ pc = "write"
    /\ \/ /\ step' = [PageStep("write") EXCEPT !.path = PagePath]
          /\ ReturnOk
       \/ /\ page.page_buffer # <<>>
          /\ step' = [PageStep("write") EXCEPT !.ok = FALSE, !.path = PagePath]
          /\ pc' = "failed"
          /\ cur' = NoObject
          /\ page' = NoPage
          /\ fetch' = NoFetch
          /\ UNCHANGED caught
       \/ /\ page.page_buffer # <<>>
          /\ step' = [PageStep("write") EXCEPT !.ok = FALSE, !.lost = TRUE,
                                               !.path = PagePath]
          /\ ReturnOk
    /\ UNCHANGED <<search_result, searches, files>>

\* lines 126-128: file.write_all(page_buffer.as_bytes()).await?, Ok(()); the file
\* is dropped without a flush.  tokio::fs::File hands each chunk of at most
\* max_buf_size bytes to a blocking write and answers Ok at once; the error of
\* a chunk is returned by the write of the next chunk.  An empty buffer is not
\* written at all.  The byte length of the buffer is not kept: a failed write
\* is either returned by write_all (a chunk before the last one failed) or
\* never seen (the buffer fits one chunk, or the last chunk failed).
WriteFile ==
    /\ UNCHANGED <<renderVars, cacheVars, server>>
    /\ pc = "write"
    /\ \/ /\ step' = [PageStep("write") EXCEPT !.path = PagePath]
          /\ ReturnOk
       \/ /\ page.page_buffer # <<>>
          /\ ReturnErr([PageStep("write") EXCEPT !.ok = FALSE, !.path = PagePath])
       \/ /\ page.page_buffer # <<>>
          /\ step' = [PageStep("write") EXCEPT !.ok = FALSE, !.lost = TRUE,
                                               !.path = PagePath]
          /\ ReturnOk
    /\ UNCHANGED <<search_result, searches, files>>

\* ----------------------------------------------------------------- specs
\* line 32: main is entered, nothing has run
RunInit ==
    /\ pc = "start"
    /\ search_result = EmptyList
    /\ searches = 0
    /\ cur = NoObject
    /\ page = NoPage
    /\ fetch = NoFetch
    /\ caught = FALSE
    /\ files = {}
    /\ step = NoStep

NoBlock  == [type |-> "None"]
NoResult == [done |-> FALSE]
RenderIdle == rblock = NoBlock /\ rres = NoResult
NoLookup == [op |-> "none"]
CacheIdle  == cache = <<>> /\ lookups = [n |-> 0] /\ cstep = NoLookup

\* the server ends its cursor sequences
Ending == server = "ending"

Init == RunInit /\ Ending /\ RenderIdle /\ CacheIdle

Next ==
    \/ ParseCli
    \/ SaveToken
    \/ LoadConfig
    \/ Search(Objects)
    \/ HandleOther
    \/ HandlePage
    \/ LoopEnd(Objects)
    \/ GetPage
    \/ GetChildren(RunBlocks)
    \/ RenderBatch
    \/ NextChildren(RunBlocks)
    \/ CreateFile
    \/ WriteFile

Spec == Init /\ [][Next]_vars

\* The export run for the liveness of the loop, against a server of either
\* kind: the same steps, the search batches drawn from one result of each
\* behaviour (printed, exported, without title).  The run is one sequential
\* control flow of awaited calls: it takes its next step whenever it has one.
FairInit == RunInit /\ server \in Servers /\ RenderIdle /\ CacheIdle

FairNext ==
    \/ ParseCli
    \/ SaveToken
    \/ LoadConfig
    \/ Search(LiveObjects)
    \/ HandleOther
    \/ HandlePage
    \/ LoopEnd(LiveObjects)
    \/ GetPage
    \/ GetChildren(RunBlocks)
    \/ RenderBatch
    \/ NextChildren(RunBlocks)
    \/ CreateFile
    \/ WriteFile

FairSpec == FairInit /\ [][FairNext]_vars /\ WF_vars(FairNext)

\* process_page alone, on one page and with a richer block alphabet: it starts
\* where main has searched once, received the single Page and calls process_page
FetchInit ==
    /\ pc = "get_page"
    /\ search_result = EmptyList
    /\ searches = 1
    /\ cur \in {o \in Objects : o.kind = "Page" /\ o.has_title}
    /\ page = NoPage
    /\ fetch = NoFetch
    /\ caught = FALSE
    /\ files = {}
    /\ step = [NoStep EXCEPT !.op = "title", !.kind = "Page", !.arg = cur.id]
    /\ Ending
    /\ RenderIdle
    /\ CacheIdle

FetchNext ==
    \/ GetPage
    \/ GetChildren(FetchBlocks)
    \/ RenderBatch
    \/ NextChildren(FetchBlocks)
    \/ CreateFile
    \/ WriteFile

SpecFetch == FetchInit /\ [][FetchNext]_vars

\* ------------------------------------------------------ renderer harness
RichTexts ==
    { <<>>,
      Word("hi"),
      <<[plain_text |-> <<"a", NL, "b">>], [plain_text |-> <<>>],
        [plain_text |-> <<"c", NL>>]>>,
      <<[plain_text |-> <<"a", CR, NL, CR, "b", CR>>]>> }

Urls == { <<>>, <<"http://x">> }

\* Debug names of code.language
Languages == { <<"P", "y", "t", "h", "o", "n">>,
               <<"P", "l", "a", "i", "n", "T", "e", "x", "t">>,
               <<"R", "u", "s", "t">>,
               <<"C", "S", "h", "a", "r", "p">>,
               <<"G", "o">> }

FileObjects ==
    {[tag |-> "File", file |-> [url |-> u]] : u \in Urls}
    \cup {[tag |-> "External", external |-> [url |-> u]] : u \in Urls}

\* the blocks found as children of a rendered block, nested to depth d
RECURSIVE Kids(_)
Kids(d) ==
    IF d = 0
    THEN {Hi, Divider, [type |-> "ColumnList", children |-> <<>>]}
    ELSE Kids(d - 1)
         \cup {[type |-> "Quote", rich_text |-> Word("q"), children |-> Some(<<k>>)] :
                 k \in Kids(d - 1)}
         \cup {[type |-> "Column", children |-> <<k>>] : k \in Kids(d - 1)}

ChildSeqs   == SeqsUpTo(Kids(MaxDepth - 1), MaxKids)
OptChildren == {None} \cup {Some(c) : c \in ChildSeqs}

\* every variant of notion::models::block::Block that block_to_markdown matches
RenderBlocks ==
    {[type |-> t, rich_text |-> r, children |-> c] :
        t \in {"Paragraph", "Quote", "BulletedListItem", "NumberedListItem", "Toggle"},
        r \in RichTexts, c \in OptChildren}
    \cup {[type |-> "ToDo", rich_text |-> r, checked |-> k, children |-> c] :
            r \in RichTexts, k \in BOOLEAN, c \in OptChildren}
    \cup {[type |-> t, rich_text |-> r] :
            t \in {"Heading1", "Heading2", "Heading3", "Callout", "Template"},
            r \in RichTexts}
    \cup {[type |-> "Code", rich_text |-> r, language |-> l] :
            r \in RichTexts, l \in Languages}
    \cup {[type |-> "ChildPage", id |-> i, title |-> t] :
            i \in PageIds \cup {""}, t \in Titles \cup {<<>>}}
    \cup {[type |-> "ChildDatabase", title |-> t] : t \in Titles \cup {<<>>}}
    \cup {[type |-> t, file_object |-> f] :
            t \in {"Image", "Video", "File", "Pdf"}, f \in FileObjects}
    \cup {[type |-> t, url |-> u] : t \in {"Embed", "LinkPreview"}, u \in Urls}
    \cup {[type |-> "Bookmark", caption |-> r, url |-> u] : r \in RichTexts, u \in Urls}
    \cup {[type |-> "Equation", expression |-> e] : e \in {<<>>, <<"x^2">>}}
    \cup {[type |-> t] :
            t \in {"Divider", "TableOfContents", "Breadcrumb", "LinkToPage", "Table",
                   "SyncedBlock", "TableRow", "Unsupported", "Unknown"}}
    \cup {[type |-> t, children |-> c] : t \in {"ColumnList", "Column"}, c \in ChildSeqs}

RenderInit ==
    /\ RunInit
    /\ Ending
    /\ CacheIdle
    /\ rblock \in RenderBlocks
    /\ rres = NoResult

\* one call block_to_markdown(rblock, &mut String::new())
Render ==
    /\ rres = NoResult
    /\ LET r == block_to_markdown(rblock) IN
       rres' = [done |-> TRUE, ok |-> r.ok, out |-> r.out]
    /\ UNCHANGED <<rblock, runVars, cacheVars>>

SpecRender == RenderInit /\ [][Render]_vars

\* ------------------------------------------------------------ PageIdCache
UnknownTitle == <<"UNKNOWN_TITLE">>

\* HashMap::insert
Insert(map, k, v) == [i \in DOMAIN map \cup {k} |-> IF i = k THEN v ELSE map[i]]

\* PageIdCache::new()
CacheInit ==
    /\ RunInit
    /\ Ending
    /\ RenderIdle
    /\ cache = <<>>
    /\ lookups = [n |-> 0, fetches_ok |-> [i \in PageIds |-> 0], failed |-> {}]
    /\ cstep = NoLookup

\* (mutant) the memoized title is not consulted: every call fetches
get_page_titleAlwaysFetches(id) ==
    /\ lookups.n < MaxLookups
    /\ LET call == [op |-> "lookup", id |-> id, failed_before |-> id \in lookups.failed,
                    fetches |-> 1, ok |-> TRUE, fetched |-> None, title |-> <<>>] IN
       \/ /\ cstep' = [call EXCEPT !.ok = FALSE]
          /\ lookups' = [lookups EXCEPT !.n = @ + 1, !.failed = @ \cup {id}]
          /\ UNCHANGED cache
       \/ \E t \in {None} \cup {Some(x) : x \in Titles} :
            LET title == IF t = None THEN UnknownTitle ELSE t[1] IN
            /\ cache' = Insert(cache, id, title)
            /\ cstep' = [call EXCEPT !.fetched = Some(t), !.title = title]
            /\ lookups' = [lookups EXCEPT !.n = @ + 1, !.fetches_ok[id] = @ + 1]
    /\ UNCHANGED <<runVars, renderVars>>

\* get_page_title(&mut self, id, client), lines 433-442
get_page_title(id) ==
    /\ lookups.n < MaxLookups
    /\ LET call == [op |-> "lookup", id |-> id, failed_before |-> id \in lookups.failed,
                    fetches |-> 0, ok |-> TRUE, fetched |-> None, title |-> <<>>] IN
       IF id \in DOMAIN cache
       THEN /\ cstep' = [call EXCEPT !.title = cache[id]]
            /\ lookups' = [lookups EXCEPT !.n = @ + 1]
            /\ UNCHANGED cache
       ELSE \/ /\ cstep' = [call EXCEPT !.fetches = 1, !.ok = FALSE]
               /\ lookups' = [lookups EXCEPT !.n = @ + 1, !.failed = @ \cup {id}]
               /\ UNCHANGED cache
            \/ \E t \in {None} \cup {Some(x) : x \in Titles} :
                 LET title == IF t = None THEN UnknownTitle ELSE t[1] IN
                 /\ cache' = Insert(cache, id, title)
                 /\ cstep' = [call EXCEPT !.fetches = 1, !.fetched = Some(t),
                                          !.title = title]
                 /\ lookups' = [lookups EXCEPT !.n = @ + 1,
                                               !.fetches_ok[id] = @ + 1]
    /\ UNCHANGED <<runVars, renderVars>>

CacheNext == \E id \in PageIds : get_page_title(id)

SpecCache == CacheInit /\ [][CacheNext]_vars

\* ================================================================ claims
PagePcs  == {"get_page", "get_children", "render", "cursor", "create", "write"}
PageOps  == {"get_page", "get_children", "render", "fetched", "create", "write"}
SinkOps  == {"create", "write"}
SetupOps == {"parse", "prompt", "save_config", "load_config", "client"}
SearchFailed == step.op = "search" /\ ~step.ok
PrintFailed  == ~step.print_ok
SetupFailed  == step.op \in SetupOps /\ ~step.ok
\* the export has begun: the credential is loaded and the client built
Exporting == pc \notin {"start", "save_token", "load_config", "exited"}

NumTokens(returned) == Cardinality({i \in DOMAIN returned : returned[i] # None})

\* C1: when the fetch of a page has ended without a remote error, the blocks
\* rendered are the concatenation of the received batches in arrival order, the
\* first call carried no cursor, every later call carried the token returned
\* just before it, the last batch carried no token, and the number of
\* get-children calls is the number of returned tokens plus one.
C1_FetchConcatenatesBatches ==
    pc = "create" =>
        /\ fetch.consumed = fetch.received
        /\ page.page_buffer = RenderChildren(fetch.received).out
        /\ Len(fetch.sent) = NumTokens(fetch.returned) + 1
        /\ fetch.sent[1] = None
        /\ \A i \in 2..Len(fetch.sent) :
              fetch.sent[i] # None /\ fetch.sent[i] = fetch.returned[i - 1]
        /\ fetch.returned[Len(fetch.returned)] = None

\* two cursor-linked batches of one block each: two blocks, two calls
C1_Witness ==
    /\ pc = "create"
    /\ Len(fetch.sent) = 2
    /\ Len(fetch.consumed) = 2
    /\ fetch.consumed[1] # fetch.consumed[2]

\* C2 as stated: once an error of process_page has been caught, the run ends
\* with success unless a search call fails.
C2_Original ==
    (caught /\ Terminal /\ ~SearchFailed) => pc = "done"

\* C2 amended: an error returned by process_page is caught; its line printed,
\* main stays in the for loop with the remaining results and the continuation
\* token untouched (the run ends there with a panic only when the line cannot
\* be printed); a run that ended after a caught error ended with success unless
\* a search call failed, a title was missing or a line could not be printed; a
\* run that ends with success has taken every result and exhausted the cursor.
C2_CaughtErrorDoesNotAbort ==
    /\ [][(step'.op \in PageOps /\ ~step'.ok /\ ~step'.lost) =>
             /\ IF step'.print_ok THEN caught' /\ pc' = "for"
                                  ELSE caught' = caught /\ pc' = "panicked"
             /\ search_result' = search_result
             /\ searches' = searches]_vars
    /\ []((caught /\ Terminal /\ ~SearchFailed /\ step.title_ok /\ ~PrintFailed)
            => pc = "done")
    /\ [](pc = "done" => search_result = EmptyList)

\* a page failed, a later page was exported, a further search page was requested
C2_Witness ==
    /\ caught
    /\ pc = "done"
    /\ searches = 2
    /\ files # {}

\* C3 as stated: a failed search call, a failed get-page call and a missing
\* title are all fatal.
C3_Original ==
    ((step.op \in {"search", "get_page"} /\ ~step.ok) \/ ~step.title_ok)
        => pc \in {"failed", "panicked"}

\* C3 amended: a failed search call ends the run with a failure, a missing title
\* (line 72 or line 102) ends it with a panic, and nothing happens after either;
\* a failed get-page call is returned by process_page, caught, and, its line
\* printed, the run goes on; once the export has begun nothing but these and a
\* line that cannot be printed ends the run with a failure or a panic.
C3_FatalFailures ==
    /\ [](SearchFailed => pc = "failed")
    /\ [](~step.title_ok => pc = "panicked")
    /\ []((step.op = "get_page" /\ ~step.ok /\ ~PrintFailed) => (pc = "for" /\ caught))
    /\ [](PrintFailed => pc = "panicked")
    /\ [](pc \in {"failed", "panicked"} =>
            (SearchFailed \/ ~step.title_ok \/ PrintFailed \/ SetupFailed))
    /\ [][~Terminal]_vars

\* a cursor-continued search call failed after a page error had been caught
C3_Witness ==
    /\ pc = "failed"
    /\ step.cursor # None
    /\ caught

\* C4 as stated: a sink error (create or write) is fatal.
C4_Original ==
    (step.op \in SinkOps /\ ~step.ok) => pc \in {"failed", "panicked"}

\* C4 amended: no sink error ends the run by itself.  A failed create, and a
\* failed write that write_all returns, make process_page return the error,
\* which main catches: its line printed, the run is back in the for loop with
\* the remaining results, nothing of the page is kept (the run ends there with a
\* panic only when the line cannot be printed).  A failed write that write_all
\* does not return is not seen: process_page returns Ok, nothing is caught, the
\* run goes on the same way.  A file whose write failed exists, a file whose
\* creation failed is not added.
C4_SinkErrorIsNotFatal ==
    [][(step'.op \in SinkOps /\ ~step'.ok) =>
          /\ pc' = (IF step'.print_ok THEN "for" ELSE "panicked")
          /\ search_result' = search_result
          /\ searches' = searches
          /\ cur' = NoObject
          /\ page' = NoPage
          /\ caught' = (IF step'.lost \/ ~step'.print_ok THEN caught ELSE TRUE)
          /\ step'.lost => step'.print_ok
          /\ step'.lost => step'.op = "write"
          /\ files' = files
          /\ (step'.op = "write" => step'.path \in files)]_vars

\* the write of a page failed unseen while a further result of the batch is
\* waiting and nothing has been caught
C4_Witness ==
    /\ step.op = "write"
    /\ ~step.ok
    /\ step.lost
    /\ ~caught
    /\ pc = "for"
    /\ search_result.results # <<>>

\* C5: a failed get-children call ends process_page with an error, which main
\* catches (going on with the for loop once its line is printed), leaves the
\* files untouched and drops the buffer; get-children calls
\* are made only inside the fetch loop of a Page; a file is created or written
\* only when the last batch carried no token and every received block has been
\* rendered.
C5_FailedFetchWritesNothing ==
    /\ [][(step'.op = "get_children" /\ ~step'.ok) =>
             /\ pc' = (IF step'.print_ok THEN "for" ELSE "panicked")
             /\ step'.print_ok => caught'
             /\ files' = files
             /\ page' = NoPage
             /\ cur' = NoObject]_vars
    /\ [][step'.op = "get_children" =>
             (pc \in {"get_children", "cursor"} /\ cur.kind = "Page")]_vars
    /\ [][(step'.op \in SinkOps \/ files' # files) =>
             /\ pc \in {"create", "write"}
             /\ step'.op \in SinkOps
             /\ page.children.next_cursor = None
             /\ fetch.returned[Len(fetch.returned)] = None
             /\ fetch.consumed = fetch.received
             /\ page.page_buffer = RenderChildren(fetch.received).out]_vars

\* a cursor-continued get-children call failed: a batch had been received and rendered
C5_Witness ==
    /\ step.op = "get_children"
    /\ ~step.ok
    /\ step.cursor # None
    /\ pc = "for"

\* C6: get_page_title fetches exactly when the id is absent, once; a hit returns
\* the memoized title; a successful fetch adds id -> title (UNKNOWN_TITLE for a
\* page without title) and nothing else; a failed fetch leaves the map as it
\* was; entries are never removed or changed; at most one successful fetch per id.
C6_CacheMemoizes ==
    /\ [][LET id == cstep'.id IN
          /\ cstep'.fetches = (IF id \in DOMAIN cache THEN 0 ELSE 1)
          /\ id \in DOMAIN cache =>
                (cstep'.ok /\ cstep'.title = cache[id] /\ cache' = cache)
          /\ (cstep'.fetches = 1 /\ cstep'.ok) =>
                /\ DOMAIN cache' = DOMAIN cache \cup {id}
                /\ cache'[id] = cstep'.title
                /\ cstep'.title = (IF cstep'.fetched[1] = None THEN UnknownTitle
                                   ELSE cstep'.fetched[1][1])
          /\ ~cstep'.ok => cache' = cache
          /\ cache' # cache <=> (cstep'.fetches = 1 /\ cstep'.ok)
          /\ \A i \in DOMAIN cache : i \in DOMAIN cache' /\ cache'[i] = cache[i]]_vars
    /\ [](\A i \in PageIds : lookups.fetches_ok[i] <= 1)

\* an id whose fetch had failed is fetched again, with success
C6_Witness ==
    /\ cstep.op = "lookup"
    /\ cstep.failed_before
    /\ cstep.fetches = 1
    /\ cstep.ok
    /\ cstep.title = UnknownTitle

\* C7 as stated: after a result that is not a Page has been handled the run is
\* in the for loop, ready for the next result.
C7_Original ==
    step.op = "print" => pc = "for"

\* C7 amended: get-page, get-children and file steps happen only while a Page
\* result is being handled; a result of another kind is taken from the batch
\* and printed, with no call and no file, and the loop goes on unless its line
\* cannot be printed, which ends the run with a panic; the set of files changes
\* only in the create step of a Page.
C7_OnlyPagesExported ==
    /\ [](pc \in PagePcs => cur.kind = "Page")
    /\ [](step.op \in PageOps => step.kind = "Page")
    /\ [](step.op = "print" =>
            /\ step.kind \in OtherKinds
            /\ cur = NoObject
            /\ pc = (IF step.print_ok THEN "for" ELSE "panicked"))
    /\ [][(search_result.results # <<>> /\ pc = "for"
             /\ Head(search_result.results).kind # "Page") =>
             /\ step'.op = "print"
             /\ step'.kind = Head(search_result.results).kind
             /\ files' = files
             /\ searches' = searches
             /\ search_result'.results = Tail(search_result.results)]_vars
    /\ [][files' # files => (step'.op = "create" /\ cur.kind = "Page")]_vars

\* a Database result is passed over after a Page has been exported
C7_Witness ==
    /\ step.op = "print"
    /\ step.print_ok
    /\ step.kind = "Database"
    /\ pc = "for"
    /\ files # {}

\* C8 as stated: a cursor-continued search call follows whenever the previous
\* batch carried a token, so a run that has ended after an answered search call
\* holds a batch without token; and against a server that puts a token into
\* every batch and fails no call, a run that has searched never ends.
C8_Original ==
    /\ (Terminal /\ searches >= 1 /\ ~SearchFailed) => search_result.next_cursor = None
    /\ (server = "endless" /\ searches >= 1 /\ step.ok) => ~Terminal

\* C8 amended.  The search loop: a cursor-continued search call is issued
\* exactly when every result of the batch has been handled and the batch
\* carried a token, with that token; the export, once begun, ends with success
\* exactly when every result has been handled and the batch carried none.  The
\* fetch loop of process_page: the same with get-children calls.  With a token
\* outstanding the run ends only by a failed search call or a panic.  Against
\* an endless server a run that has searched never ends with success and no
\* page gets past its fetch loop.  Liveness: against an ending server every run
\* reaches a terminal state; a run that reaches none issues search or
\* get-children calls for ever.
C8_Termination ==
    /\ [][/\ (step'.op = "search" /\ step'.cursor # None) =>
                /\ pc = "for"
                /\ search_result.results = <<>>
                /\ step'.cursor = search_result.next_cursor
          /\ (pc = "for" /\ search_result.results = <<>>
                /\ search_result.next_cursor # None) =>
                /\ step'.op = "search"
                /\ step'.cursor = search_result.next_cursor
                /\ pc' # "done"
                /\ searches' = Count(searches, MaxSearchCalls)
          /\ (pc = "for" /\ search_result.results = <<>>
                /\ search_result.next_cursor = None) => pc' = "done"
          /\ (pc' = "done" /\ Exporting) =>
                /\ pc = "for"
                /\ search_result.results = <<>>
                /\ search_result.next_cursor = None
                /\ searches' = searches]_vars
    /\ [][/\ (step'.op = "get_children" /\ step'.cursor # None) =>
                /\ pc = "cursor"
                /\ step'.cursor = page.children.next_cursor
          /\ (pc = "cursor" /\ page.children.next_cursor # None) =>
                /\ step'.op = "get_children"
                /\ step'.cursor = page.children.next_cursor
                /\ pc' \notin {"create", "write"}
          /\ (pc = "cursor" /\ page.children.next_cursor = None) => pc' = "create"
          /\ pc' = "create" =>
                (pc = "cursor" /\ page.children.next_cursor = None)]_vars
    /\ []((Terminal /\ searches >= 1 /\ search_result.next_cursor # None) =>
            (pc = "panicked" \/ (pc = "failed" /\ SearchFailed)))
    /\ []((server = "endless" /\ searches >= 1) =>
            (pc \notin {"done", "create", "write"} /\ files = {}))
    /\ <>(Terminal \/ server = "endless")
    /\ (<>Terminal \/ []<>(step.op \in {"search", "get_children"} /\ step.ok))

\* against an endless server a cursor-continued search call has been answered
\* with a further token after more than MaxSearchCalls calls
C8_Witness ==
    /\ server = "endless"
    /\ pc = "for"
    /\ step.op = "search"
    /\ step.ok
    /\ searches = MaxSearchCalls
    /\ step.cursor = Some(MaxSearchCalls)
    /\ search_result.next_cursor = Some(MaxSearchCalls)

\* C9 as stated: block_to_markdown returns Ok and appends non-empty text for
\* every block.
C9_Original ==
    rres.done => (rres.ok /\ rres.out # <<>>)

\* C9 amended: block_to_markdown returns Ok for every block, and the text it
\* appends is empty exactly for a ColumnList or Column without children.
C9_RenderTotal ==
    rres.done =>
        /\ rres.ok
        /\ rres.out = <<>> <=>
              (rblock.type \in {"ColumnList", "Column"} /\ rblock.children = <<>>)

\* a ChildPage block has been rendered
C9_Witness ==
    /\ rres.done
    /\ rblock.type = "ChildPage"
    /\ rres.out # <<>>

\* C10 as stated: every Page result taken from the batch gets its process_page
\* invocation.
C10_Original ==
    step.op = "title" => pc = "get_page"

\* C10 amended: results are taken one by one from the head of the batch, only
\* between two results; a Page whose title is present and whose line is printed
\* gets one get-page call for its id (a Page without title, or whose line
\* cannot be printed, ends the run with a panic before any call), then the
\* get-children calls for the same id, then at most one file creation and, the
\* file created, one write; a search call is issued only when the batch is used
\* up; a failed step is never followed by the same step.
C10_SequentialOrder ==
    /\ [][search_result'.results # search_result.results =>
             \/ step'.op = "search"
             \/ /\ step'.op \in {"print", "title"}
                /\ pc = "for" /\ cur = NoObject
                /\ search_result'.results = Tail(search_result.results)
                /\ step'.kind = Head(search_result.results).kind
                /\ step'.op = "title" => step'.arg = Head(search_result.results).id]_vars
    /\ [][step'.op \in {"print", "title"} => (pc = "for" /\ cur = NoObject)]_vars
    /\ [](step.op = "title" =>
            pc = (IF step.title_ok /\ step.print_ok THEN "get_page" ELSE "panicked"))
    /\ [][step'.op = "get_page" =>
             (step.op = "title" /\ step.title_ok /\ step.print_ok /\ step'.arg = step.arg
                /\ step'.arg = cur.id)]_vars
    /\ [][step'.op = "get_children" =>
             /\ step'.arg = cur.id
             /\ step.op \in (IF step'.cursor = None THEN {"get_page"} ELSE {"render"})
             /\ step.ok]_vars
    /\ [][step'.op = "create" => (step.op = "fetched" /\ step'.arg = cur.id)]_vars
    /\ [][step'.op = "write" =>
             (step.op = "create" /\ step.ok /\ step'.path = step.path /\ cur' = NoObject)]_vars
    /\ [][step'.op = "search" =>
             (pc \in {"search", "for"} /\ search_result.results = <<>>
                /\ cur = NoObject)]_vars
    /\ [][~step.ok => step'.op # step.op]_vars

\* two pages have been exported one after the other
C10_Witness ==
    /\ Cardinality(files) = 2
    /\ step.op = "write"
    /\ step.ok

====
